---- MODULE Spec2Model ----
(***************************************************************************)
(* AI Search Chat: the streaming response pipeline (ResponseOrchestrator   *)
(* and its event stream), the vector index behind it, the client hook      *)
(* useStreamingChat that consumes the stream and the chat screen that      *)
(* drives the hook.                                                        *)
(*                                                                         *)
(* The backend's code is not part of the source tree; the order of the     *)
(* events of a response is taken from the protocol listing of README.md    *)
(* ("Streaming Protocol (SSE)"), the state machine around it, the index    *)
(* and the planner from the design document (sections 3 to 7).  The client *)
(* is translated from frontend/lib/useStreamingChat.ts and the components  *)
(* of frontend/components.                                                 *)
(***************************************************************************)
EXTENDS Integers, Sequences, FiniteSets, TLC

VARIABLES
    req,          \* the request the core received, or NoRequest
    orchState,    \* state of the ResponseOrchestrator for that request
    sources,      \* ResponseSession: the Source list retrieval returned
    emitted,      \* the events written to the response stream, in order
    streamOpen,   \* the response stream has not been closed by the server
    connAborted,  \* the client side of the connection is gone
    messages,     \* useState<Message[]>
    isStreaming,  \* useState(false)
    error,        \* useState<string | null>
    abortRef,     \* abortControllerRef.current: 0 is null, else the call's number
    pc,           \* where the running sendMessage call stands
    rpos,         \* frames of the response body the reader has consumed
    callNo,       \* number of sendMessage calls so far
    asstId,       \* assistantMessageId of the running call
    delivered,    \* the 'data: ' lines the running call's reads have held, in order
    outcome,      \* how the last finished sendMessage call ended
    now,          \* Date.now()
    index,        \* VectorIndex: the stored chunks, in insertion order
    registry,     \* DocumentRegistry: the ids of the registered documents
    writer,       \* the mutation that holds the write side of the index lock
    searching,    \* per pipeline: the query vector of its running search, <<>> if none
    planned,      \* the last result of RetrievalPlanner.plan
    calls,        \* per sendMessage call, in call order: where it stands, its assistantMessageId
    pdfState,     \* ChatInterface: useState({isOpen, url, page, highlight})
    viewer,       \* PDFViewer: pageNumber, numPages (0 is null), the url whose document loaded
    lastPdfAction, \* the last click on a citation or on a button of the viewer
    uploadProgress, \* DocumentUpload: useState<UploadProgress | null>
    uploadPc,       \* where the running handleFileUpload stands, which timer is set
    progressLog,    \* what the setUploadProgress calls of the last accepted upload stored
    uploadTally,    \* handleFileUpload calls, alerts, uploadDocument calls and outcomes
    documentRefresh, \* ChatInterface: useState(0), bumped by handleUploadComplete
    documents,      \* DocumentList: useState<Document[]>, the ids in display order
    deletingId,     \* DocumentList: useState<string | null>
    deleteCalls,    \* the handleDelete calls so far: their document, where they stand
    loading,        \* DocumentList: useState(true)
    listError,      \* DocumentList: useState<string | null>
    serverDocs      \* what GET /api/documents lists

orchVars == <<req, orchState, sources, emitted, streamOpen>>
hookVars == <<messages, isStreaming, error, abortRef, pc, rpos, callNo, asstId,
              delivered, outcome, now>>
chatVars == <<req, orchState, sources, emitted, streamOpen, connAborted, messages,
              isStreaming, error, abortRef, pc, rpos, callNo, asstId, delivered,
              outcome, now>>
idxVars == <<index, registry, writer, searching, planned>>
callVars == <<calls>>
pdfVars == <<pdfState, viewer, lastPdfAction>>
uploadVars == <<uploadProgress, uploadPc, progressLog, uploadTally, documentRefresh>>
docVars == <<documents, deletingId, deleteCalls, loading, listError, serverDocs>>
panelVars == <<pdfVars, uploadVars, docVars>>
sideVars == <<callVars, panelVars>>
vars == <<chatVars, idxVars, sideVars>>

\* ------------------------------------------------------------------ bounds
MaxSources == 1
MaxChunks == 2
MaxSends == 1
MaxClock == 0
MaxRead == 2
MaxBody == 4
MaxCalls == 2

\* ------------------------------------------------------------------ data
Chars == {"a", "b"}
\* one text chunk of the model's output (chunk boundaries carry no meaning)
Chunks == {<<c>> : c \in Chars}

\* "plot a map" holds a visualisation keyword no renderer exists for
Queries == {"hello", "show a chart", "as a table", "summary card", "plot a map"}
\* what the user types or picks in the chat
UserInputs == {"hello", "show a chart"}

NoRequest == [message |-> "", use_context |-> FALSE, present |-> FALSE]
Request(q, ctx) == [message |-> q, use_context |-> ctx, present |-> TRUE]

Stages == {"searching_documents", "retrieving_pdf", "analyzing_content",
           "generating_response"}
ComponentNames == {"chart", "table", "card"}

ToolCallEvent(name, status) == [type |-> "tool_call", name |-> name, status |-> status]
ComponentEvent(name) == [type |-> "component", name |-> name, props |-> name]
SourcesEvent(srcs) == [type |-> "sources", content |-> srcs]
TextEvent(c) == [type |-> "text", content |-> c]
DoneEvent == [type |-> "done"]
ErrorEvent(m) == [type |-> "error", content |-> m]

\* Source: citation_id 1..N assigned per response
SourceList(n) == [i \in 1..n |-> [id |-> i, pdf_id |-> "doc", page |-> i]]

NonTerminal == {"IDLE", "SEARCHING", "RETRIEVED", "ANALYZING", "GENERATING_UI",
                "GENERATING_TEXT"}
Terminal == {"DONE", "ERROR", "CANCELLED"}

\* ------------------------------------------------------------------ VectorIndex
Documents == {"A", "B"}
Pipelines == {1, 2}

\* embeddings: vectors of dimension 2 with components >= 0, none of them zero
QueryVectors == {<<1, 0>>, <<0, 1>>, <<1, 1>>}

\* Chunker and Embedder: the chunks of a document, in page order, then in the
\* order of the passages of a page
DocumentChunks(d) ==
    IF d = "A"
    THEN <<[chunk_id |-> "A1", document_id |-> "A", page_number |-> 1, vector |-> <<2, 0>>],
           [chunk_id |-> "A2", document_id |-> "A", page_number |-> 1, vector |-> <<1, 1>>],
           [chunk_id |-> "A3", document_id |-> "A", page_number |-> 2, vector |-> <<1, 0>>]>>
    ELSE <<[chunk_id |-> "B1", document_id |-> "B", page_number |-> 1, vector |-> <<0, 1>>]>>

\* the fixed top_k and the minimum-score floor (a cosine of 1/2) of the planner
TopK == 3
MinScore == [num |-> 1, den |-> 2]

Dot(a, b) == a[1] * b[1] + a[2] * b[2]

\* cosine similarity, kept exact as its square num/den: no component is negative,
\* so the squares are ordered as the cosines are
Cosine(q, v) == [num |-> Dot(q, v) * Dot(q, v), den |-> Dot(q, q) * Dot(v, v)]
ScoreLess(s, t) == s.num * t.den < t.num * s.den
ScoreAtLeast(s, m) == s.num * m.den * m.den >= m.num * m.num * s.den

\* insert(chunk, vector): appends; DimensionMismatch leaves the index as it is
Insert(idx, chunk) ==
    IF idx # <<>> /\ Len(chunk.vector) # Len(idx[1].vector)
    THEN idx
    ELSE Append(idx, chunk)

\* positions of the chunks a document owns
OwnedBy(idx, d) == {i \in 1..Len(idx) : idx[i].document_id = d}

\* mutant: the removal drops the oldest chunk of the index, whoever owns it
RemoveOneOldest(idx, d) == Tail(idx)

\* one step of remove_by_document: the first chunk the document owns is deleted
RemoveOne(idx, d) ==
    LET i == CHOOSE k \in OwnedBy(idx, d) : \A j \in OwnedBy(idx, d) : k <= j
    IN [n \in 1..(Len(idx) - 1) |-> IF n < i THEN idx[n] ELSE idx[n + 1]]

\* search(query_vector, top_k, min_score): the top_k chunks with a score >=
\* min_score, by descending score, the earlier-inserted first among equal scores
Search(idx, q, k, floor) ==
    LET Score(i) == Cosine(q, idx[i].vector)
        Hits == {i \in 1..Len(idx) : ScoreAtLeast(Score(i), floor)}
        Beats(j, i) == \/ ScoreLess(Score(i), Score(j))
                       \/ ~ScoreLess(Score(j), Score(i)) /\ j < i
        Rank(i) == Cardinality({j \in Hits : Beats(j, i)})
        n == IF Cardinality(Hits) < k THEN Cardinality(Hits) ELSE k
    IN [r \in 1..n |-> idx[CHOOSE i \in Hits : Rank(i) = r - 1]]

\* mutant: every hit is kept
DedupeNothing(hits) == hits

\* results of the same (document_id, page) pair: the first, higher-scoring, is kept
RECURSIVE DedupeByPage(_)
DedupeByPage(hits) ==
    IF hits = <<>>
    THEN <<>>
    ELSE LET OtherPage(c) == \/ c.document_id # Head(hits).document_id
                             \/ c.page_number # Head(hits).page_number
         IN <<Head(hits)>> \o DedupeByPage(SelectSeq(Tail(hits), OtherPage))

\* RetrievalPlanner.plan for an embedded query: id is the citation_id
Plan(idx, q) ==
    LET kept == DedupeByPage(Search(idx, q, TopK, MinScore))
    IN [n \in 1..Len(kept) |->
            [id |-> n, document_id |-> kept[n].document_id,
             page |-> kept[n].page_number, chunk_id |-> kept[n].chunk_id,
             similarity_score |-> Cosine(q, kept[n].vector)]]

IdleWriter == [op |-> "none", document_id |-> "", todo |-> <<>>, before |-> <<>>]
NoWriter == writer.op = "none"
NoReader == \A p \in Pipelines : searching[p] = <<>>

IndexInit ==
    /\ index = <<>>
    /\ registry = {}
    /\ writer = IdleWriter
    /\ searching = [p \in Pipelines |-> <<>>]
    /\ planned = [query |-> <<>>, sources |-> <<>>, seen |-> <<>>]

\* document ingestion takes the write side of the lock ...
BeginIngest(d) ==
    /\ NoWriter
    /\ NoReader
    /\ d \notin registry
    /\ writer' = [op |-> "insert", document_id |-> d, todo |-> DocumentChunks(d),
                  before |-> index]
    /\ UNCHANGED <<index, registry, searching, planned, chatVars, sideVars>>

\* ... inserts the chunks of the document one by one ...
InsertStep ==
    /\ writer.op = "insert"
    /\ writer.todo # <<>>
    /\ index' = Insert(index, Head(writer.todo))
    /\ writer' = [writer EXCEPT !.todo = Tail(@)]
    /\ UNCHANGED <<registry, searching, planned, chatVars, sideVars>>

\* ... and registers the ownership before it releases the lock
EndIngest ==
    /\ writer.op = "insert"
    /\ writer.todo = <<>>
    /\ registry' = registry \cup {writer.document_id}
    /\ writer' = IdleWriter
    /\ UNCHANGED <<index, searching, planned, chatVars, sideVars>>

\* document deletion: remove_by_document under the write side of the lock, for a
\* registered document or for one that owns no chunk
BeginDelete(d) ==
    /\ NoWriter
    /\ NoReader
    /\ writer' = [op |-> "remove", document_id |-> d, todo |-> <<>>, before |-> index]
    /\ UNCHANGED <<index, registry, searching, planned, chatVars, sideVars>>

RemoveStep ==
    /\ writer.op = "remove"
    /\ OwnedBy(index, writer.document_id) # {}
    /\ index' = RemoveOne(index, writer.document_id)
    /\ UNCHANGED <<registry, writer, searching, planned, chatVars, sideVars>>

EndDelete ==
    /\ writer.op = "remove"
    /\ OwnedBy(index, writer.document_id) = {}
    /\ registry' = registry \ {writer.document_id}
    /\ writer' = IdleWriter
    /\ UNCHANGED <<index, searching, planned, chatVars, sideVars>>

\* mutant: a search starts while a mutation holds the lock
BeginSearchUnlocked(p, q) ==
    /\ searching[p] = <<>>
    /\ searching' = [searching EXCEPT ![p] = q]
    /\ UNCHANGED <<index, registry, writer, planned, chatVars, sideVars>>

\* a pipeline takes the read side of the lock for its search
BeginSearch(p, q) ==
    /\ NoWriter
    /\ searching[p] = <<>>
    /\ searching' = [searching EXCEPT ![p] = q]
    /\ UNCHANGED <<index, registry, writer, planned, chatVars, sideVars>>

\* the search and the planning on its result; the read side is released
EndSearch(p) ==
    /\ searching[p] # <<>>
    /\ planned' = [query |-> searching[p], sources |-> Plan(index, searching[p]),
                   seen |-> index]
    /\ searching' = [searching EXCEPT ![p] = <<>>]
    /\ UNCHANGED <<index, registry, writer, chatVars, sideVars>>

NextIndex ==
    \/ \E d \in Documents : BeginIngest(d)
    \/ InsertStep
    \/ EndIngest
    \/ \E d \in Documents : BeginDelete(d)
    \/ RemoveStep
    \/ EndDelete
    \/ \E p \in Pipelines, q \in QueryVectors : BeginSearch(p, q)
    \/ \E p \in Pipelines : EndSearch(p)

\* ------------------------------------------------------------------ orchestrator
\* RetrievalPlanner returned at least one Source: the citation-bearing stages run
CitationStages(srcs) == Len(srcs) > 0

\* keyword-triggered structured output: query text -> the component its keyword
\* asks for, "none" when no keyword matches
DetectComponent(q) ==
    CASE q = "show a chart" -> "chart"
      [] q = "as a table" -> "table"
      [] q = "summary card" -> "card"
      [] q = "plot a map" -> "map"
      [] OTHER -> "none"

\* the human-readable message of the error event
ErrorMessage(state) ==
    IF state \in {"IDLE", "SEARCHING"} THEN "retrieval failed" ELSE "generation failed"

\* the events of a response, in the order the server streams them
SearchingEvents == <<ToolCallEvent("searching_documents", "in_progress")>>

\* mutant: the retrieving_pdf stage is announced whether or not a source was found
RetrievedEventsAlways(srcs) ==
    <<ToolCallEvent("searching_documents", "complete"),
      ToolCallEvent("retrieving_pdf", "in_progress"),
      ToolCallEvent("retrieving_pdf", "complete")>>

RetrievedEvents(srcs) ==
    <<ToolCallEvent("searching_documents", "complete")>>
    \o (IF CitationStages(srcs)
        THEN <<ToolCallEvent("retrieving_pdf", "in_progress"),
               ToolCallEvent("retrieving_pdf", "complete")>>
        ELSE <<>>)

\* mutant: the stage is announced and never completed
AnalyzingEventsInProgressOnly == <<ToolCallEvent("analyzing_content", "in_progress")>>

\* mutant: the complete of the stage is yielded before its in_progress
AnalyzingEventsSwapped ==
    <<ToolCallEvent("analyzing_content", "complete"),
      ToolCallEvent("analyzing_content", "in_progress")>>

AnalyzingEvents ==
    <<ToolCallEvent("analyzing_content", "in_progress"),
      ToolCallEvent("analyzing_content", "complete")>>

UIEvents(name) == <<ComponentEvent(name)>>

\* mutant: the sources event is forgotten
GeneratingEventsNoSources(srcs) ==
    <<ToolCallEvent("generating_response", "in_progress")>>

GeneratingEvents(srcs) ==
    (IF CitationStages(srcs) THEN <<SourcesEvent(srcs)>> ELSE <<>>)
    \o <<ToolCallEvent("generating_response", "in_progress")>>

TextEvents(c) == <<TextEvent(c)>>

\* mutant: the last stage is completed after the terminal event
DoneThenComplete == <<DoneEvent, ToolCallEvent("generating_response", "complete")>>

DoneEvents == <<DoneEvent>>

\* mutant: the error path falls through to the normal end of the stream
ErrorThenDone(state) == <<ErrorEvent(ErrorMessage(state)), DoneEvent>>

ErrorEvents(state) == <<ErrorEvent(ErrorMessage(state))>>

TextCount(evs) == Cardinality({i \in 1..Len(evs) : evs[i].type = "text"})

\* the producer yields only while the request is live and the channel is open
Running == req.present /\ streamOpen /\ ~connAborted

\* mutant: use_context is ignored, every request is searched
StartAlwaysSearches ==
    /\ Running
    /\ orchState = "IDLE"
    /\ orchState' = "SEARCHING"
    /\ emitted' = emitted \o SearchingEvents
    /\ UNCHANGED <<req, sources, streamOpen, connAborted, hookVars, idxVars, sideVars>>

\* IDLE -> SEARCHING in context-aware mode; use_context = false goes straight to
\* text generation
Start ==
    /\ Running
    /\ orchState = "IDLE"
    /\ IF req.use_context
       THEN /\ orchState' = "SEARCHING"
            /\ emitted' = emitted \o SearchingEvents
       ELSE /\ orchState' = "GENERATING_TEXT"
            /\ emitted' = emitted \o GeneratingEvents(<<>>)
    /\ UNCHANGED <<req, sources, streamOpen, connAborted, hookVars, idxVars, sideVars>>

\* SEARCHING -> RETRIEVED: RetrievalPlanner.plan returned n sources
Retrieve(n) ==
    /\ Running
    /\ orchState = "SEARCHING"
    /\ sources' = SourceList(n)
    /\ orchState' = "RETRIEVED"
    /\ emitted' = emitted \o RetrievedEvents(SourceList(n))
    /\ UNCHANGED <<req, streamOpen, connAborted, hookVars, idxVars, sideVars>>

\* RETRIEVED -> ANALYZING
Analyze ==
    /\ Running
    /\ orchState = "RETRIEVED"
    /\ orchState' = "ANALYZING"
    /\ emitted' = emitted \o AnalyzingEvents
    /\ UNCHANGED <<req, sources, streamOpen, connAborted, hookVars, idxVars, sideVars>>

\* ANALYZING -> GENERATING_UI: a keyword matched and the props could be derived
GenerateUI ==
    /\ Running
    /\ orchState = "ANALYZING"
    /\ DetectComponent(req.message) \in ComponentNames
    /\ orchState' = "GENERATING_UI"
    /\ emitted' = emitted \o UIEvents(DetectComponent(req.message))
    /\ UNCHANGED <<req, sources, streamOpen, connAborted, hookVars, idxVars, sideVars>>

\* -> GENERATING_TEXT, with or without a component before it (no keyword, or the
\* data could not be derived)
GenerateText ==
    /\ Running
    /\ orchState \in {"ANALYZING", "GENERATING_UI"}
    /\ orchState' = "GENERATING_TEXT"
    /\ emitted' = emitted \o GeneratingEvents(sources)
    /\ UNCHANGED <<req, sources, streamOpen, connAborted, hookVars, idxVars, sideVars>>

\* one chunk of the model's output
StreamText(c) ==
    /\ Running
    /\ orchState = "GENERATING_TEXT"
    /\ TextCount(emitted) < MaxChunks
    /\ emitted' = emitted \o TextEvents(c)
    /\ UNCHANGED <<req, orchState, sources, streamOpen, connAborted, hookVars, idxVars, sideVars>>

\* -> DONE
Finish ==
    /\ Running
    /\ orchState = "GENERATING_TEXT"
    /\ orchState' = "DONE"
    /\ emitted' = emitted \o DoneEvents
    /\ streamOpen' = FALSE
    /\ UNCHANGED <<req, sources, connAborted, hookVars, idxVars, sideVars>>

\* mutant: a failed retrieval is retried from the start instead of ending the response
FailRetriesSearch ==
    /\ Running
    /\ orchState \in NonTerminal
    /\ IF orchState = "SEARCHING"
       THEN /\ orchState' = "IDLE"
            /\ UNCHANGED <<emitted, streamOpen>>
       ELSE /\ orchState' = "ERROR"
            /\ emitted' = emitted \o ErrorEvents(orchState)
            /\ streamOpen' = FALSE
    /\ UNCHANGED <<req, sources, connAborted, hookVars, idxVars, sideVars>>

\* ERROR from any non-terminal state: a retrieval or generation failure
Fail ==
    /\ Running
    /\ orchState \in NonTerminal
    /\ orchState' = "ERROR"
    /\ emitted' = emitted \o ErrorEvents(orchState)
    /\ streamOpen' = FALSE
    /\ UNCHANGED <<req, sources, connAborted, hookVars, idxVars, sideVars>>

\* the producer observes the client's abort between two yields
Cancel ==
    /\ req.present
    /\ connAborted
    /\ orchState \in NonTerminal
    /\ orchState' = "CANCELLED"
    /\ streamOpen' = FALSE
    /\ UNCHANGED <<req, sources, emitted, connAborted, hookVars, idxVars, sideVars>>

\* a client of the stream endpoint closes its connection
ClientDisconnect ==
    /\ req.present
    /\ ~connAborted
    /\ connAborted' = TRUE
    /\ UNCHANGED <<orchVars, hookVars, idxVars, sideVars>>

Orchestrate ==
    \/ Start
    \/ \E n \in 0..MaxSources : Retrieve(n)
    \/ Analyze
    \/ GenerateUI
    \/ GenerateText
    \/ \E c \in Chunks : StreamText(c)
    \/ Finish
    \/ Fail
    \/ Cancel

\* the screen's other components before any user action; the url null is <<>>
SideInit ==
    /\ calls = <<>>
    /\ pdfState = [isOpen |-> FALSE, url |-> <<>>, page |-> 1, highlight |-> "null"]
    /\ viewer = [pageNumber |-> 1, numPages |-> 0, loaded |-> <<>>]
    /\ lastPdfAction = [kind |-> "none", source |-> "none"]
    /\ uploadProgress = [file |-> "none", progress |-> 0, status |-> "null", error |-> "none"]
    /\ uploadPc = "idle"
    /\ progressLog = <<>>
    /\ uploadTally = [calls |-> 0, alerts |-> 0, requests |-> 0, succeeded |-> 0,
                      failed |-> 0, file |-> "none"]
    /\ documentRefresh = 0
    /\ documents = <<>>
    /\ deletingId = "null"
    /\ deleteCalls = <<>>
    /\ loading = TRUE
    /\ listError = "null"
    /\ serverDocs = <<"A", "B", "C">>

HookInit ==
    /\ messages = <<>>
    /\ isStreaming = FALSE
    /\ error = "null"
    /\ abortRef = 0
    /\ pc = "idle"
    /\ rpos = 0
    /\ callNo = 0
    /\ asstId = 0
    /\ delivered = <<>>
    /\ outcome = "none"
    /\ now = 0

\* the core alone, serving one request of any client
InitOrch ==
    /\ req \in {Request(q, ctx) : q \in Queries, ctx \in BOOLEAN}
    /\ orchState = "IDLE"
    /\ sources = <<>>
    /\ emitted = <<>>
    /\ streamOpen = TRUE
    /\ connAborted = FALSE
    /\ HookInit
    /\ IndexInit
    /\ SideInit

NextOrch == Orchestrate \/ ClientDisconnect

SpecOrch == InitOrch /\ [][NextOrch]_vars

\* ------------------------------------------------------------------ useStreamingChat
UserMessage(id, content) ==
    [id |-> id, role |-> "user", content |-> content, isStreaming |-> FALSE,
     sources |-> <<>>, toolCalls |-> <<>>, components |-> <<>>]

AssistantMessage(id) ==
    [id |-> id, role |-> "assistant", content |-> <<>>, isStreaming |-> TRUE,
     sources |-> <<>>, toolCalls |-> <<>>, components |-> <<>>]

\* mutant: a tool_call line always adds an entry
UpsertToolCallAppend(tcs, name, status) == Append(tcs, [name |-> name, status |-> status])

\* toolCalls.findIndex(tc => tc.name === data.name), 0 when there is none
FindToolCall(tcs, name) ==
    IF \E i \in 1..Len(tcs) : tcs[i].name = name
    THEN CHOOSE i \in 1..Len(tcs) :
            /\ tcs[i].name = name
            /\ \A j \in 1..(i - 1) : tcs[j].name # name
    ELSE 0

UpsertToolCall(tcs, name, status) ==
    IF FindToolCall(tcs, name) > 0
    THEN [tcs EXCEPT ![FindToolCall(tcs, name)] = [name |-> name, status |-> status]]
    ELSE Append(tcs, [name |-> name, status |-> status])

\* what one parsed data line does to a message whose id is assistantMessageId
UpdateMessage(msg, data) ==
    CASE data.type = "text" -> [msg EXCEPT !.content = @ \o data.content]
      [] data.type = "tool_call" ->
            [msg EXCEPT !.toolCalls = UpsertToolCall(@, data.name, data.status)]
      [] data.type = "component" ->
            [msg EXCEPT !.components = Append(@, [name |-> data.name, props |-> data.props])]
      [] data.type = "sources" -> [msg EXCEPT !.sources = data.content]
      [] data.type = "done" -> [msg EXCEPT !.isStreaming = FALSE]
      [] OTHER -> msg

\* setMessages(prev => prev.map(msg => msg.id === assistantMessageId ? ... : msg))
MapMessages(msgs, id, data) ==
    [i \in 1..Len(msgs) |-> IF msgs[i].id = id THEN UpdateMessage(msgs[i], data) ELSE msgs[i]]

\* mutant: an error line rolls the partial answer back
HandleLineErrorDropsMessage(st, id, data) ==
    CASE data.type = "done" ->
            [st EXCEPT !.messages = MapMessages(@, id, data), !.isStreaming = FALSE,
                       !.abortRef = 0, !.ended = "done"]
      [] data.type = "error" ->
            [st EXCEPT !.messages = LET Keep(m) == m.id # id IN SelectSeq(@, Keep),
                       !.error = data.content, !.isStreaming = FALSE,
                       !.abortRef = 0, !.ended = "error"]
      [] OTHER -> [st EXCEPT !.messages = MapMessages(@, id, data)]

\* the body of the loop over the lines of one read, for one parsed 'data: ' line;
\* st.ended is "" until a done or error line made sendMessage return
HandleLine(st, id, data) ==
    CASE data.type = "done" ->
            [st EXCEPT !.messages = MapMessages(@, id, data), !.isStreaming = FALSE,
                       !.abortRef = 0, !.ended = "done"]
      [] data.type = "error" ->
            [st EXCEPT !.error = data.content, !.isStreaming = FALSE,
                       !.abortRef = 0, !.ended = "error"]
      [] OTHER -> [st EXCEPT !.messages = MapMessages(@, id, data)]

\* mutant: the loop over the lines goes on after a done or error line
RECURSIVE HandleLinesAll(_, _, _)
HandleLinesAll(st, id, lines) ==
    IF lines = <<>>
    THEN st
    ELSE HandleLinesAll(HandleLine(st, id, Head(lines)), id, Tail(lines))

RECURSIVE HandleLines(_, _, _)
HandleLines(st, id, lines) ==
    IF lines = <<>> \/ st.ended # ""
    THEN st
    ELSE HandleLines(HandleLine(st, id, Head(lines)), id, Tail(lines))

\* mutant: the catch records every error, the AbortError too
CatchErrorAll(name, message, old) ==
    IF message = "" THEN "Failed to connect" ELSE message

\* catch (err): an AbortError is not recorded, any other Error is
CatchError(name, message, old) ==
    IF name # "AbortError"
    THEN (IF message = "" THEN "Failed to connect" ELSE message)
    ELSE old

FailureMessages == {"Failed to fetch", ""}

\* sendMessage up to the fetch; t is Date.now() at the call, and the second
\* Date.now() may read the next millisecond (d = 1)
BeginCall(content, t, d) ==
    /\ t >= now
    /\ messages' = messages \o <<UserMessage(t, content), AssistantMessage(t + d + 1)>>
    /\ error' = "null"
    /\ isStreaming' = TRUE
    /\ asstId' = t + d + 1
    /\ now' = t + d
    /\ callNo' = callNo + 1
    /\ abortRef' = callNo + 1
    /\ pc' = "fetching"
    /\ rpos' = 0
    /\ delivered' = <<>>
    /\ req' = Request(content, TRUE)
    /\ orchState' = "IDLE"
    /\ sources' = <<>>
    /\ emitted' = <<>>
    /\ streamOpen' = TRUE
    /\ connAborted' = FALSE
    /\ UNCHANGED <<outcome, idxVars, sideVars>>

\* a call of the hook's sendMessage, one call at a time
SendMessage(content, t, d) ==
    /\ pc = "idle"
    /\ callNo < MaxSends
    /\ t + d <= MaxClock
    /\ BeginCall(content, t, d)

\* response.ok and a body reader
FetchOk ==
    /\ pc = "fetching"
    /\ pc' = "reading"
    /\ UNCHANGED <<idxVars, sideVars, orchVars, connAborted, messages, isStreaming, error, abortRef, rpos,
                   callNo, asstId, delivered, outcome, now>>

\* fetch rejects, or !response.ok, or no body: the request never reached the core
FetchFail(m) ==
    /\ pc = "fetching"
    /\ orchState = "IDLE"
    /\ req' = NoRequest
    /\ error' = CatchError("Error", m, error)
    /\ isStreaming' = FALSE
    /\ abortRef' = 0
    /\ pc' = "idle"
    /\ outcome' = "failed"
    /\ UNCHANGED <<idxVars, sideVars, orchState, sources, emitted, streamOpen, connAborted, messages,
                   rpos, callNo, asstId, delivered, now>>

\* one reader.read() that returns k frames of the body; a read that ends inside
\* the last of them leaves a line JSON.parse rejects and, in the next read, a
\* line without the 'data: ' prefix: that event is dropped
Read(k, torn) ==
    /\ pc = "reading"
    /\ rpos + k <= Len(emitted)
    /\ LET lines == SubSeq(emitted, rpos + 1, IF torn THEN rpos + k - 1 ELSE rpos + k)
           st == HandleLines([messages |-> messages, isStreaming |-> isStreaming,
                              error |-> error, abortRef |-> abortRef,
                              ended |-> ""], asstId, lines)
       IN /\ messages' = st.messages
          /\ isStreaming' = st.isStreaming
          /\ error' = st.error
          /\ abortRef' = st.abortRef
          /\ delivered' = delivered \o lines
          /\ pc' = IF st.ended = "" THEN "reading" ELSE "idle"
          /\ outcome' = IF st.ended = "" THEN outcome ELSE st.ended
    /\ rpos' = rpos + k
    /\ UNCHANGED <<idxVars, sideVars, orchVars, connAborted, callNo, asstId, now>>

\* reader.read() returns done: the loop is left without a done or error line
ReadEnd ==
    /\ pc = "reading"
    /\ ~streamOpen
    /\ rpos = Len(emitted)
    /\ isStreaming' = FALSE
    /\ abortRef' = 0
    /\ pc' = "idle"
    /\ outcome' = "eof"
    /\ UNCHANGED <<idxVars, sideVars, orchVars, connAborted, messages, error, rpos, callNo, asstId,
                   delivered, now>>

\* reader.read() rejects: the connection broke
ReadFail(m) ==
    /\ pc = "reading"
    /\ connAborted' = TRUE
    /\ error' = CatchError("TypeError", m, error)
    /\ isStreaming' = FALSE
    /\ abortRef' = 0
    /\ pc' = "idle"
    /\ outcome' = "failed"
    /\ UNCHANGED <<idxVars, sideVars, orchVars, messages, rpos, callNo, asstId, delivered, now>>

\* clearMessages: aborts the request abortControllerRef holds
ClearMessages ==
    /\ messages' = <<>>
    /\ error' = "null"
    /\ abortRef' = 0
    /\ IF abortRef # 0 /\ pc \in {"fetching", "reading"}
       THEN pc' = "aborted" /\ connAborted' = TRUE
       ELSE UNCHANGED <<pc, connAborted>>
    /\ UNCHANGED <<idxVars, sideVars, orchVars, isStreaming, rpos, callNo, asstId, delivered, outcome, now>>

\* the awaited fetch or read rejects with the AbortError
CatchAbort ==
    /\ pc = "aborted"
    /\ error' = CatchError("AbortError", "The user aborted a request.", error)
    /\ isStreaming' = FALSE
    /\ abortRef' = 0
    /\ pc' = "idle"
    /\ outcome' = "aborted"
    /\ UNCHANGED <<idxVars, sideVars, orchVars, connAborted, messages, rpos, callNo, asstId, delivered, now>>

Init ==
    /\ req = NoRequest
    /\ orchState = "IDLE"
    /\ sources = <<>>
    /\ emitted = <<>>
    /\ streamOpen = TRUE
    /\ connAborted = FALSE
    /\ HookInit
    /\ IndexInit
    /\ SideInit

Next ==
    \/ Orchestrate
    \/ \E q \in UserInputs, t \in 0..MaxClock, d \in {0, 1} : SendMessage(q, t, d)
    \/ FetchOk
    \/ \E m \in FailureMessages : FetchFail(m)
    \/ \E k \in 1..MaxRead, torn \in BOOLEAN : Read(k, torn)
    \/ ReadEnd
    \/ \E m \in FailureMessages : ReadFail(m)
    \/ ClearMessages
    \/ CatchAbort

Spec == Init /\ [][Next]_vars

\* ------------------------------------------------------------------ ChatInterface
\* one of the suggestion buttons of the empty state
Suggestions == {"Summarize the key findings"}

\* InputBox gets disabled={isStreaming}; handleSend sends only when !disabled
InputEnabled == ~isStreaming

\* mutant: the suggestion buttons stay on the screen
SuggestionsAlwaysShown == TRUE

\* the empty state with the suggestion buttons replaces the message list
SuggestionsShown == Len(messages) = 0

\* the New button
NewShown == Len(messages) > 0

\* abort() rejects the awaited fetch or read at once, so the catch of the aborted
\* call runs as a microtask of the click that aborted it, before the next user
\* event is handled; the guards below read the state the last render showed,
\* which lags behind only while it still shows a call as running
ReactionsDone == pc # "aborted"

\* Enter or the send button of the input box; the calls of the chat are at least
\* two milliseconds apart
InputSend(q) ==
    /\ InputEnabled
    /\ ReactionsDone
    /\ callNo < MaxCalls
    /\ BeginCall(q, 2 * callNo, 0)

\* onClick={() => handleSendMessage(suggestion)}
SuggestionClick(q) ==
    /\ SuggestionsShown
    /\ ReactionsDone
    /\ callNo < MaxCalls
    /\ BeginCall(q, 2 * callNo, 0)

\* onClick={() => clearMessages()}
NewClick ==
    /\ NewShown
    /\ ReactionsDone
    /\ ClearMessages

\* the chat screen, answered by a server without documents
NextUI ==
    \/ InputSend("hello")
    \/ \E q \in Suggestions : SuggestionClick(q)
    \/ NewClick
    \/ Start
    \/ Retrieve(0)
    \/ Analyze
    \/ GenerateText
    \/ StreamText(<<"a">>)
    \/ Finish
    \/ Fail
    \/ Cancel
    \/ FetchOk
    \/ FetchFail("Failed to fetch")
    \/ \E torn \in BOOLEAN : Read(1, torn)
    \/ ReadEnd
    \/ ReadFail("Failed to fetch")
    \/ CatchAbort

SpecUI == Init /\ [][NextUI]_vars

\* the hook in front of any server: the body of the response is any sequence of
\* well-formed events, complete before the first read
BodyEvents ==
    {ToolCallEvent(n, st) : n \in {"searching_documents", "analyzing_content"},
                            st \in {"in_progress", "complete"}}
    \cup {TextEvent(<<"a">>), ComponentEvent("chart"), SourcesEvent(SourceList(1)),
          DoneEvent, ErrorEvent("generation failed")}

Bodies == UNION {[1..n -> BodyEvents] : n \in 0..MaxBody}

\* sendMessage("hello") has been called and its fetch has returned the response
InitBody ==
    /\ req = Request("hello", TRUE)
    /\ orchState = "DONE"
    /\ sources = <<>>
    /\ emitted \in Bodies
    /\ streamOpen = FALSE
    /\ connAborted = FALSE
    /\ messages = <<UserMessage(0, "hello"), AssistantMessage(1)>>
    /\ isStreaming = TRUE
    /\ error = "null"
    /\ abortRef = 1
    /\ pc = "reading"
    /\ rpos = 0
    /\ callNo = 1
    /\ asstId = 1
    /\ delivered = <<>>
    /\ outcome = "none"
    /\ now = 0
    /\ IndexInit
    /\ SideInit

NextBody ==
    \/ \E k \in 1..MaxRead, torn \in BOOLEAN : Read(k, torn)
    \/ ReadEnd
    \/ \E m \in FailureMessages : ReadFail(m)
    \/ ClearMessages
    \/ CatchAbort

SpecBody == InitBody /\ [][NextBody]_vars

\* the index alone, under uploads, deletions and the searches of the pipelines
SpecIndex == Init /\ [][NextIndex]_vars

\* ------------------------------------------------------------------ ComponentRenderer
\* mutant: the card renderer is not registered
componentRegistryNoCard == [chart |-> "Chart", table |-> "DataTable"]

\* component names -> the React component that renders them
componentRegistry == [chart |-> "Chart", table |-> "DataTable", card |-> "InfoCard"]

\* what ComponentRenderer renders for a component of a message
ComponentRenderer(name) ==
    IF name \in DOMAIN componentRegistry
    THEN componentRegistry[name]
    ELSE "Unknown component"

\* ------------------------------------------------------------------ MessageBubble
\* message.sources?.find(s => s.id === id): the source a citation [id] of the text
\* resolves to, "undefined" when no source has that id
FindSource(srcs, id) ==
    IF \E n \in 1..Len(srcs) : srcs[n].id = id
    THEN srcs[CHOOSE n \in 1..Len(srcs) :
                /\ srcs[n].id = id
                /\ \A m \in 1..(n - 1) : srcs[m].id # id]
    ELSE "undefined"

\* ------------------------------------------------------------------ overlapping calls
\* sendMessage is a plain useCallback without a guard of its own: a caller of the
\* hook may call it while an earlier call still awaits its fetch or a read.  Each
\* call owns an AbortController and an assistantMessageId; messages, isStreaming,
\* error and abortControllerRef are shared by all of them.
MaxOverlap == 2
MaxNow == 2
MaxCallReads == 2

CallEvents == {TextEvent(<<"a">>), DoneEvent, ErrorEvent("generation failed")}

\* the text of a user message, as the characters an event's text is appended to
CallInputs == {<<"b">>}

InFlight(c) == c.st \in {"fetching", "reading"}

\* the shared state of the hook, as the handlers of one line see it
HookState ==
    [messages |-> messages, isStreaming |-> isStreaming, error |-> error,
     abortRef |-> abortRef, ended |-> ""]

\* sendMessage up to its first await, whatever the earlier calls are doing
CallSend(content, t, d) ==
    /\ Len(calls) < MaxOverlap
    /\ t >= now
    /\ t + d <= MaxNow
    /\ messages' = messages \o <<UserMessage(t, content), AssistantMessage(t + d + 1)>>
    /\ error' = "null"
    /\ isStreaming' = TRUE
    /\ now' = t + d
    /\ callNo' = callNo + 1
    /\ abortRef' = Len(calls) + 1
    /\ calls' = Append(calls, [st |-> "fetching", asst |-> t + d + 1, reads |-> 0])
    /\ UNCHANGED <<idxVars, panelVars, orchVars, connAborted, pc, rpos, asstId, delivered, outcome>>

\* response.ok and a body reader, for call i
CallFetchOk(i) ==
    /\ calls[i].st = "fetching"
    /\ calls' = [calls EXCEPT ![i].st = "reading"]
    /\ UNCHANGED <<idxVars, panelVars, chatVars>>

\* the catch of call i: its fetch or one of its reads rejected with an Error
CallFail(i, m) ==
    /\ InFlight(calls[i])
    /\ error' = CatchError("Error", m, error)
    /\ isStreaming' = FALSE
    /\ abortRef' = 0
    /\ calls' = [calls EXCEPT ![i].st = "ended"]
    /\ UNCHANGED <<idxVars, panelVars, orchVars, connAborted, messages, pc, rpos, callNo, asstId,
                   delivered, outcome, now>>

\* one read of call i that holds one 'data: ' line
CallRead(i, data) ==
    /\ calls[i].st = "reading"
    /\ calls[i].reads < MaxCallReads
    /\ LET st == HandleLine(HookState, calls[i].asst, data)
       IN /\ messages' = st.messages
          /\ isStreaming' = st.isStreaming
          /\ error' = st.error
          /\ abortRef' = st.abortRef
          /\ calls' = [calls EXCEPT ![i].reads = @ + 1,
                                    ![i].st = IF st.ended = "" THEN "reading" ELSE "ended"]
    /\ UNCHANGED <<idxVars, panelVars, orchVars, connAborted, pc, rpos, callNo, asstId, delivered,
                   outcome, now>>

\* reader.read() of call i returns done
CallReadEnd(i) ==
    /\ calls[i].st = "reading"
    /\ isStreaming' = FALSE
    /\ abortRef' = 0
    /\ calls' = [calls EXCEPT ![i].st = "ended"]
    /\ UNCHANGED <<idxVars, panelVars, orchVars, connAborted, messages, error, pc, rpos, callNo,
                   asstId, delivered, outcome, now>>

\* clearMessages: aborts the controller the ref holds, if it holds one
CallClear ==
    /\ messages' = <<>>
    /\ error' = "null"
    /\ abortRef' = 0
    /\ calls' = IF abortRef # 0 /\ InFlight(calls[abortRef])
                THEN [calls EXCEPT ![abortRef].st = "aborted"]
                ELSE calls
    /\ UNCHANGED <<idxVars, panelVars, orchVars, connAborted, isStreaming, pc, rpos, callNo, asstId,
                   delivered, outcome, now>>

\* the catch of call i for the AbortError of its controller
CallCatchAbort(i) ==
    /\ calls[i].st = "aborted"
    /\ error' = CatchError("AbortError", "The user aborted a request.", error)
    /\ isStreaming' = FALSE
    /\ abortRef' = 0
    /\ calls' = [calls EXCEPT ![i].st = "ended"]
    /\ UNCHANGED <<idxVars, panelVars, orchVars, connAborted, messages, pc, rpos, callNo, asstId,
                   delivered, outcome, now>>

NextCalls ==
    \/ \E q \in CallInputs, t \in 0..MaxNow, d \in {0, 1} : CallSend(q, t, d)
    \/ \E i \in 1..Len(calls) : CallFetchOk(i)
    \/ \E i \in 1..Len(calls) : CallFail(i, "Failed to fetch")
    \/ \E i \in 1..Len(calls), data \in CallEvents : CallRead(i, data)
    \/ \E i \in 1..Len(calls) : CallReadEnd(i)
    \/ CallClear
    \/ \E i \in 1..Len(calls) : CallCatchAbort(i)

SpecCalls == Init /\ [][NextCalls]_vars

\* ------------------------------------------------------------------ PDF viewer
\* Source.page is number | string: a number, or the characters of a string
NumberPage(n) == [kind |-> "number", val |-> n]
StringPage(s) == [kind |-> "string", val |-> s]

\* the PDFs citations point to and the numPages their documents report
Pdfs == {"A", "B"}
PageCount == [A |-> 3, B |-> 2]

\* the sources a citation link of a message can hand to onCitationClick
CitedSources ==
    {[pdf_id |-> "A", page |-> NumberPage(1), text |-> "a1"],
     [pdf_id |-> "A", page |-> NumberPage(3), text |-> "a3"],
     [pdf_id |-> "B", page |-> StringPage(<<"2">>), text |-> "b2"],
     [pdf_id |-> "B", page |-> StringPage(<<"p", "2">>), text |-> "b2"]}

DigitValue ==
    [c \in {"0", "1", "2", "3", "4", "5", "6", "7", "8", "9"} |->
        CASE c = "0" -> 0 [] c = "1" -> 1 [] c = "2" -> 2 [] c = "3" -> 3 [] c = "4" -> 4
          [] c = "5" -> 5 [] c = "6" -> 6 [] c = "7" -> 7 [] c = "8" -> 8 [] c = "9" -> 9]

NaN == [nan |-> TRUE, val |-> 0]

\* parseInt: the leading decimal digits of the string, NaN when it has none
RECURSIVE ParseDigits(_, _)
ParseDigits(s, acc) ==
    IF s = <<>> \/ Head(s) \notin DOMAIN DigitValue
    THEN acc
    ELSE ParseDigits(Tail(s), [nan |-> FALSE, val |-> 10 * acc.val + DigitValue[Head(s)]])

ParseInt(s) == ParseDigits(s, NaN)

\* typeof source.page === 'number' ? source.page : parseInt(source.page) || 1
PageOf(page) ==
    IF page.kind = "number"
    THEN page.val
    ELSE LET n == ParseInt(page.val)
         IN IF n.nan \/ n.val = 0 THEN 1 ELSE n.val

\* url: null
NoUrl == <<>>

\* `${baseUrl}/api/pdfs/${source.pdf_id}/file`
PdfUrl(id) == <<"http://localhost:8000", "/api/pdfs/", id, "/file">>

Min(a, b) == IF a < b THEN a ELSE b
Max(a, b) == IF a > b THEN a ELSE b

\* numPages || 1
PagesOrOne == IF viewer.numPages = 0 THEN 1 ELSE viewer.numPages

\* useEffect(() => setPageNumber(initialPage), [url, initialPage]): the effect
\* runs after a render in which one of its dependencies changed
EffectRuns(url, page) == url # pdfState.url \/ page # pdfState.page

\* handleCitationClick(source) with the render and the effect that follow it;
\* <Document> is mounted anew when the panel was closed and loads anew when its
\* file changes
CitationClick(source) ==
    LET url == PdfUrl(source.pdf_id)
        page == PageOf(source.page)
    IN /\ pdfState' = [isOpen |-> TRUE, url |-> url, page |-> page,
                       highlight |-> source.text]
       /\ viewer' = [viewer EXCEPT
                        !.pageNumber = IF EffectRuns(url, page) THEN page ELSE @,
                        !.loaded = IF pdfState.isOpen /\ url = pdfState.url
                                   THEN @ ELSE NoUrl]
       /\ lastPdfAction' = [kind |-> "citation", source |-> source]
       /\ UNCHANGED <<chatVars, idxVars, callVars, docVars, uploadVars>>

\* onDocumentLoadSuccess({ numPages }) for the file the panel shows
DocumentLoadSuccess ==
    /\ pdfState.isOpen
    /\ pdfState.url # NoUrl
    /\ viewer.loaded # pdfState.url
    /\ \E id \in Pdfs :
          /\ pdfState.url = PdfUrl(id)
          /\ viewer' = [viewer EXCEPT !.numPages = PageCount[id], !.loaded = pdfState.url]
    /\ UNCHANGED <<chatVars, idxVars, callVars, docVars, uploadVars, pdfState, lastPdfAction>>

\* the previous-page button
PreviousPage ==
    /\ pdfState.isOpen
    /\ pdfState.url # NoUrl
    /\ ~(viewer.pageNumber <= 1)
    /\ viewer' = [viewer EXCEPT !.pageNumber = Max(@ - 1, 1)]
    /\ lastPdfAction' = [kind |-> "previous", source |-> "none"]
    /\ UNCHANGED <<chatVars, idxVars, callVars, docVars, uploadVars, pdfState>>

\* the next-page button
NextPage ==
    /\ pdfState.isOpen
    /\ pdfState.url # NoUrl
    /\ ~(viewer.pageNumber >= PagesOrOne)
    /\ viewer' = [viewer EXCEPT !.pageNumber = Min(@ + 1, PagesOrOne)]
    /\ lastPdfAction' = [kind |-> "next", source |-> "none"]
    /\ UNCHANGED <<chatVars, idxVars, callVars, docVars, uploadVars, pdfState>>

\* onClose: the panel and its <Document> are unmounted, PDFViewer keeps its state
ClosePdf ==
    /\ pdfState.isOpen
    /\ pdfState.url # NoUrl
    /\ pdfState' = [pdfState EXCEPT !.isOpen = FALSE]
    /\ viewer' = [viewer EXCEPT !.loaded = NoUrl]
    /\ lastPdfAction' = [kind |-> "close", source |-> "none"]
    /\ UNCHANGED <<chatVars, idxVars, callVars, docVars, uploadVars>>

NextPdf ==
    \/ \E source \in CitedSources : CitationClick(source)
    \/ DocumentLoadSuccess
    \/ PreviousPage
    \/ NextPage
    \/ ClosePdf

SpecPdf == Init /\ [][NextPdf]_vars

\* ------------------------------------------------------------------ DocumentUpload
MaxUploads == 2

\* 10 * 1024 * 1024
SizeLimit == 10 * 1024 * 1024

\* file names, as their characters
FileNames ==
    {<<"a", ".", "p", "d", "f">>, <<"A", ".", "P", "d", "F">>,
     <<"a", ".", "t", "x", "t">>, <<"p", "d", "f">>, <<"a", ".", "p", "d", "f", "x">>}
FileSizes == {SizeLimit - 1, SizeLimit, SizeLimit + 1}
Files == [name : FileNames, size : FileSizes]

\* String.prototype.toLowerCase, on the characters file names are made of
LowerChar(c) ==
    CASE c = "A" -> "a" [] c = "P" -> "p" [] c = "D" -> "d" [] c = "F" -> "f"
      [] OTHER -> c
ToLowerCase(s) == [i \in 1..Len(s) |-> LowerChar(s[i])]

\* String.prototype.endsWith
EndsWith(s, suffix) ==
    /\ Len(s) >= Len(suffix)
    /\ SubSeq(s, Len(s) - Len(suffix) + 1, Len(s)) = suffix

\* !file.name.toLowerCase().endsWith('.pdf')
NotPdf(file) == ~EndsWith(ToLowerCase(file.name), <<".", "p", "d", "f">>)

\* mutant: a file of any size is accepted
TooLargeNever(file) == FALSE

\* file.size > 10 * 1024 * 1024
TooLarge(file) == file.size > SizeLimit

\* uploadProgress: null
NoProgress == [file |-> "none", progress |-> 0, status |-> "null", error |-> "none"]

\* setUploadProgress(prev => prev ? f(prev) : null)
IfProgress(prev, next) == IF prev = NoProgress THEN NoProgress ELSE next

\* mutant: the catch starts the bar again
AfterFailureReset(prev, message) ==
    IfProgress(prev, [prev EXCEPT !.progress = 0, !.status = "error", !.error = message])

\* the updater of the catch: { ...prev, status: 'error', error: error.message }
AfterFailure(prev, message) ==
    IfProgress(prev, [prev EXCEPT !.status = "error", !.error = message])

\* what one setUploadProgress call stored, as the log keeps it
Logged(p) == [progress |-> p.progress, status |-> p.status]

\* handleFileUpload(file) up to await uploadDocument(file); the drop zone and the
\* file input are inert while uploadProgress is set
HandleFileUpload(file) ==
    /\ uploadProgress = NoProgress
    /\ uploadTally.calls < MaxUploads
    /\ IF NotPdf(file) \/ TooLarge(file)
       THEN /\ uploadTally' = [uploadTally EXCEPT !.calls = @ + 1, !.alerts = @ + 1,
                                                  !.file = file]
            /\ UNCHANGED <<uploadProgress, uploadPc, progressLog>>
       ELSE LET first == [file |-> file, progress |-> 0, status |-> "uploading",
                          error |-> "none"]
                second == IfProgress(first, [first EXCEPT !.progress = 30])
            IN /\ uploadProgress' = second
               /\ progressLog' = <<Logged(first), Logged(second)>>
               /\ uploadPc' = "uploading"
               /\ uploadTally' = [uploadTally EXCEPT !.calls = @ + 1, !.requests = @ + 1,
                                                     !.file = file]
    /\ UNCHANGED <<chatVars, idxVars, callVars, docVars, pdfVars, documentRefresh>>

\* uploadDocument resolved: the bar is completed and the 1500 ms timer is set
UploadSucceeds ==
    /\ uploadPc = "uploading"
    /\ uploadProgress' = IfProgress(uploadProgress,
                            [uploadProgress EXCEPT !.progress = 100, !.status = "complete"])
    /\ progressLog' = Append(progressLog, Logged(uploadProgress'))
    /\ uploadPc' = "completeTimer"
    /\ uploadTally' = [uploadTally EXCEPT !.succeeded = @ + 1]
    /\ UNCHANGED <<chatVars, idxVars, callVars, docVars, pdfVars, documentRefresh>>

\* uploadDocument rejected (fetch failed or !response.ok): the 3000 ms timer is set
UploadFails(message) ==
    /\ uploadPc = "uploading"
    /\ uploadProgress' = AfterFailure(uploadProgress, message)
    /\ progressLog' = Append(progressLog, Logged(uploadProgress'))
    /\ uploadPc' = "errorTimer"
    /\ uploadTally' = [uploadTally EXCEPT !.failed = @ + 1]
    /\ UNCHANGED <<chatVars, idxVars, callVars, docVars, pdfVars, documentRefresh>>

\* the timer of the success path: setUploadProgress(null); onUploadComplete?.(),
\* which is handleUploadComplete: setDocumentRefresh(prev => prev + 1)
CompleteTimer ==
    /\ uploadPc = "completeTimer"
    /\ uploadProgress' = NoProgress
    /\ documentRefresh' = documentRefresh + 1
    /\ uploadPc' = "idle"
    /\ UNCHANGED <<chatVars, idxVars, callVars, docVars, pdfVars, progressLog, uploadTally>>

\* the timer of the catch: setUploadProgress(null)
ErrorTimer ==
    /\ uploadPc = "errorTimer"
    /\ uploadProgress' = NoProgress
    /\ uploadPc' = "idle"
    /\ UNCHANGED <<chatVars, idxVars, callVars, docVars, pdfVars, progressLog, uploadTally,
                   documentRefresh>>

NextUpload ==
    \/ \E file \in Files : HandleFileUpload(file)
    \/ UploadSucceeds
    \/ \E message \in {"Failed to upload document"} : UploadFails(message)
    \/ CompleteTimer
    \/ ErrorTimer

SpecUpload == Init /\ [][NextUpload]_vars

\* a timer that was set fires
SpecUploadTimers == SpecUpload /\ WF_vars(CompleteTimer) /\ WF_vars(ErrorTimer)

\* ------------------------------------------------------------------ DocumentList
MaxDeletes == 3

\* what the file store lists when the screen is opened, in the order of the listing
StoredDocuments == <<"A", "B", "C">>

Listed(list, id) == \E n \in 1..Len(list) : list[n] = id

\* mutant: the filter keeps the document and drops the others
FilterOnly(list, id) ==
    LET Same(d) == d = id IN SelectSeq(list, Same)

\* prev.filter(doc => doc.id !== docId)
FilterOut(list, id) ==
    LET Other(d) == d # id IN SelectSeq(list, Other)

\* the list with its delete buttons is rendered
ListShown == ~loading /\ listError = "null" /\ Len(documents) # 0

\* the delete button of a listed document can be clicked
CanClickDelete(docId) ==
    /\ ListShown
    /\ Listed(documents, docId)
    /\ deletingId # docId
    /\ Len(deleteCalls) < MaxDeletes

\* handleDelete(docId), confirm() answered with cancel
DeleteDeclined(docId) ==
    /\ CanClickDelete(docId)
    /\ deleteCalls' = Append(deleteCalls, [doc |-> docId, st |-> "declined"])
    /\ UNCHANGED <<chatVars, idxVars, callVars, pdfVars, uploadVars, documents, deletingId,
                   loading, listError, serverDocs>>

\* handleDelete(docId), confirm() answered with ok, up to await deleteDocument
DeleteConfirmed(docId) ==
    /\ CanClickDelete(docId)
    /\ deletingId' = docId
    /\ deleteCalls' = Append(deleteCalls, [doc |-> docId, st |-> "awaiting"])
    /\ UNCHANGED <<chatVars, idxVars, callVars, pdfVars, uploadVars, documents, loading,
                   listError, serverDocs>>

\* the DELETE request of call i succeeded: filter, then finally
DeleteSucceeds(i) ==
    /\ deleteCalls[i].st = "awaiting"
    /\ Listed(serverDocs, deleteCalls[i].doc)
    /\ serverDocs' = FilterOut(serverDocs, deleteCalls[i].doc)
    /\ documents' = FilterOut(documents, deleteCalls[i].doc)
    /\ deletingId' = "null"
    /\ deleteCalls' = [deleteCalls EXCEPT ![i].st = "deleted"]
    /\ UNCHANGED <<chatVars, idxVars, callVars, pdfVars, uploadVars, loading, listError>>

\* the DELETE request of call i failed (no connection, or a status that is not
\* ok, such as for a document that is gone): alert, then finally
DeleteFails(i) ==
    /\ deleteCalls[i].st = "awaiting"
    /\ deletingId' = "null"
    /\ deleteCalls' = [deleteCalls EXCEPT ![i].st = "failed"]
    /\ UNCHANGED <<chatVars, idxVars, callVars, pdfVars, uploadVars, documents, loading,
                   listError, serverDocs>>

\* fetchDocuments up to await getDocuments(): the Refresh and Try again buttons
FetchDocuments ==
    /\ ~loading
    /\ loading' = TRUE
    /\ listError' = "null"
    /\ UNCHANGED <<chatVars, idxVars, callVars, pdfVars, uploadVars, documents, deletingId,
                   deleteCalls, serverDocs>>

\* getDocuments() resolved
FetchDocumentsSucceeds ==
    /\ loading
    /\ documents' = serverDocs
    /\ loading' = FALSE
    /\ UNCHANGED <<chatVars, idxVars, callVars, pdfVars, uploadVars, deletingId, deleteCalls,
                   listError, serverDocs>>

\* getDocuments() rejected
FetchDocumentsFails(message) ==
    /\ loading
    /\ listError' = message
    /\ loading' = FALSE
    /\ UNCHANGED <<chatVars, idxVars, callVars, pdfVars, uploadVars, documents, deletingId,
                   deleteCalls, serverDocs>>

NextDocs ==
    \/ \E docId \in {"A", "B", "C"} : DeleteDeclined(docId)
    \/ \E docId \in {"A", "B", "C"} : DeleteConfirmed(docId)
    \/ \E i \in 1..Len(deleteCalls) : DeleteSucceeds(i)
    \/ \E i \in 1..Len(deleteCalls) : DeleteFails(i)
    \/ FetchDocuments
    \/ FetchDocumentsSucceeds
    \/ FetchDocumentsFails("Failed to load documents")

SpecDocs == Init /\ [][NextDocs]_vars

\* ------------------------------------------------------------------ properties
IsToolCall(e, name, status) ==
    e.type = "tool_call" /\ e.name = name /\ e.status = status

\* positions of the events of one type / of one tool call in a stream
EventsAt(evs, type) == {i \in 1..Len(evs) : evs[i].type = type}
ToolCallsAt(evs, name, status) == {i \in 1..Len(evs) : IsToolCall(evs[i], name, status)}
TerminalsAt(evs) == EventsAt(evs, "done") \cup EventsAt(evs, "error")

\* C1: every response stream the server closes on its own (successful or failing,
\* context-aware or not) holds exactly one terminal event, done or error, and no
\* stream ever holds an event after a terminal one.
C1_OneTerminalEventLast ==
    /\ Cardinality(TerminalsAt(emitted)) <= 1
    /\ \A i \in TerminalsAt(emitted) : i = Len(emitted)
    /\ orchState \in {"DONE", "ERROR"} => Cardinality(TerminalsAt(emitted)) = 1
    /\ (~streamOpen /\ orchState # "CANCELLED") => TerminalsAt(emitted) # {}

C1_Witness ==
    /\ orchState = "DONE"
    /\ req.use_context
    /\ Len(sources) > 0
    /\ TextCount(emitted) = MaxChunks
    /\ emitted[Len(emitted)].type = "done"

\* C2: in a context-aware response every tool_call(stage, complete) comes after a
\* tool_call(stage, in_progress) of the same stage, for each of the four stages.
C2_CompleteAfterInProgress ==
    req.use_context =>
        \A stage \in Stages :
            \A i \in ToolCallsAt(emitted, stage, "complete") :
                \E j \in ToolCallsAt(emitted, stage, "in_progress") : j < i

C2_Witness ==
    /\ req.use_context
    /\ ToolCallsAt(emitted, "searching_documents", "complete") # {}
    /\ ToolCallsAt(emitted, "retrieving_pdf", "complete") # {}
    /\ ToolCallsAt(emitted, "analyzing_content", "complete") # {}
    /\ ToolCallsAt(emitted, "generating_response", "in_progress") # {}

\* C3: with use_context = true and at least one retrieved source, every text
\* event has the sources event before it in the stream.
C3_SourcesBeforeText ==
    (req.use_context /\ Len(sources) > 0) =>
        /\ \A i \in EventsAt(emitted, "text") :
                \E j \in EventsAt(emitted, "sources") : j < i
        /\ \A j \in EventsAt(emitted, "sources") :
                \A i \in EventsAt(emitted, "text") : j < i

C3_Witness ==
    /\ req.use_context
    /\ Len(sources) > 0
    /\ EventsAt(emitted, "sources") # {}
    /\ TextCount(emitted) = MaxChunks

\* C4: a failure in a non-terminal state ends the response in ERROR with exactly
\* one error event, which carries a message and is the last event of the closed
\* stream; the stream has no done event.
C4_FailureEndsWithOneError ==
    orchState = "ERROR" =>
        /\ ~streamOpen
        /\ Cardinality(EventsAt(emitted, "error")) = 1
        /\ EventsAt(emitted, "done") = {}
        /\ emitted[Len(emitted)].type = "error"
        /\ emitted[Len(emitted)].content # ""

C4_Witness ==
    /\ orchState = "ERROR"
    /\ TextCount(emitted) > 0
    /\ emitted[Len(emitted)] = ErrorEvent("generation failed")

\* the order of the pipeline: the steps of a context-aware response, and the
\* shortcut of a response without context
ForwardSteps(ctx) ==
    IF ctx
    THEN {<<"IDLE", "SEARCHING">>, <<"SEARCHING", "RETRIEVED">>,
          <<"RETRIEVED", "ANALYZING">>, <<"ANALYZING", "GENERATING_UI">>,
          <<"ANALYZING", "GENERATING_TEXT">>, <<"GENERATING_UI", "GENERATING_TEXT">>,
          <<"GENERATING_TEXT", "DONE">>}
    ELSE {<<"IDLE", "GENERATING_TEXT">>, <<"GENERATING_TEXT", "DONE">>}

\* C5: the orchestrator state of a response only steps forward along IDLE,
\* SEARCHING, RETRIEVED, ANALYZING, (GENERATING_UI), GENERATING_TEXT, DONE, without
\* skipping a state other than GENERATING_UI when use_context is true, or from a
\* non-terminal state to ERROR; ERROR can be entered in every non-terminal state
\* of a live response; DONE and ERROR are never left.  (The cancelled state a
\* client abort leads to is the subject of C9.)
C5_StatesOnlyMoveForward ==
    /\ [][orchState' # orchState =>
            \/ <<orchState, orchState'>> \in ForwardSteps(req.use_context)
            \/ orchState \in NonTerminal /\ orchState' = "ERROR"
            \/ connAborted /\ orchState \in NonTerminal /\ orchState' = "CANCELLED"]_vars
    /\ []((orchState \in NonTerminal /\ ~connAborted) => ENABLED Fail)

C5_Witness ==
    /\ orchState = "DONE"
    /\ req.use_context
    /\ EventsAt(emitted, "component") # {}
    /\ ToolCallsAt(emitted, "analyzing_content", "complete") # {}

\* C6: the stream of a request with use_context = false holds only the
\* generating_response tool call, text events and the terminal event.
C6_NoContextNoRetrieval ==
    ~req.use_context =>
        /\ \A i \in 1..Len(emitted) :
              \/ emitted[i].type \in {"text", "done", "error"}
              \/ emitted[i].type = "tool_call" /\ emitted[i].name = "generating_response"
        /\ Cardinality(TerminalsAt(emitted)) <= 1
        /\ sources = <<>>

C6_Witness ==
    /\ req.present
    /\ ~req.use_context
    /\ orchState = "DONE"
    /\ TextCount(emitted) = MaxChunks
    /\ ToolCallsAt(emitted, "generating_response", "in_progress") # {}

\* the pipeline has passed the retrieval / has started the text generation
PastRetrieval ==
    orchState \in {"RETRIEVED", "ANALYZING", "GENERATING_UI", "GENERATING_TEXT", "DONE"}
PastAnalysis ==
    orchState \in {"ANALYZING", "GENERATING_UI", "GENERATING_TEXT", "DONE"}
InGeneration == orchState \in {"GENERATING_TEXT", "DONE"}

\* retrieving_pdf is announced iff retrieval returned a source, in_progress then
\* complete, after searching_documents complete and before analyzing_content
RetrievingPdfPlaced ==
    /\ (ToolCallsAt(emitted, "retrieving_pdf", "in_progress") # {}
        \/ ToolCallsAt(emitted, "retrieving_pdf", "complete") # {}
        \/ EventsAt(emitted, "sources") # {}) => Len(sources) > 0
    /\ (PastRetrieval /\ Len(sources) > 0) =>
            /\ Cardinality(ToolCallsAt(emitted, "retrieving_pdf", "in_progress")) = 1
            /\ Cardinality(ToolCallsAt(emitted, "retrieving_pdf", "complete")) = 1
    /\ \A r1 \in ToolCallsAt(emitted, "retrieving_pdf", "in_progress") :
            /\ \E sc \in ToolCallsAt(emitted, "searching_documents", "complete") : sc < r1
            /\ \A r2 \in ToolCallsAt(emitted, "retrieving_pdf", "complete") : r1 < r2
    /\ \A r2 \in ToolCallsAt(emitted, "retrieving_pdf", "complete") :
            /\ \A a1 \in ToolCallsAt(emitted, "analyzing_content", "in_progress") : r2 < a1
            /\ \A s \in EventsAt(emitted, "sources") : r2 < s

\* C7 as claimed: the sources event follows retrieving_pdf complete at once, before
\* analyzing_content in_progress.
C7_SourcesBeforeAnalyzing ==
    req.use_context =>
        /\ RetrievingPdfPlaced
        /\ (orchState = "DONE" /\ Len(sources) > 0) => EventsAt(emitted, "sources") # {}
        /\ \A s \in EventsAt(emitted, "sources") :
              \A a1 \in ToolCallsAt(emitted, "analyzing_content", "in_progress") : s < a1

\* C7, amended: in a context-aware response the retrieving_pdf tool calls and the
\* sources event are emitted iff retrieval returned at least one source;
\* retrieving_pdf in_progress, retrieving_pdf complete come in that order after
\* searching_documents complete and before analyzing_content in_progress; the
\* sources event comes later, after analyzing_content complete and any component
\* event and before generating_response in_progress and every text event.
C7_SourcesBeforeGenerating ==
    req.use_context =>
        /\ RetrievingPdfPlaced
        /\ (InGeneration /\ Len(sources) > 0) =>
              Cardinality(EventsAt(emitted, "sources")) = 1
        /\ \A s \in EventsAt(emitted, "sources") :
              /\ emitted[s].content = sources
              /\ \E a2 \in ToolCallsAt(emitted, "analyzing_content", "complete") : a2 < s
              /\ \A c \in EventsAt(emitted, "component") : c < s
              /\ \E g \in ToolCallsAt(emitted, "generating_response", "in_progress") : s < g
              /\ \A g \in ToolCallsAt(emitted, "generating_response", "in_progress") : s < g
              /\ \A t \in EventsAt(emitted, "text") : s < t

C7_Witness ==
    /\ req.use_context
    /\ Len(sources) > 0
    /\ orchState = "DONE"
    /\ EventsAt(emitted, "sources") # {}
    /\ EventsAt(emitted, "component") # {}
    /\ ToolCallsAt(emitted, "retrieving_pdf", "complete") # {}

\* C8: in context mode the analyzing_content stage is never skipped: once the
\* pipeline is past RETRIEVED the stream holds its in_progress followed by its
\* complete, with or without retrieved sources.
C8_AnalyzingNeverSkipped ==
    (req.use_context /\ PastAnalysis) =>
        /\ Cardinality(ToolCallsAt(emitted, "analyzing_content", "in_progress")) = 1
        /\ Cardinality(ToolCallsAt(emitted, "analyzing_content", "complete")) = 1
        /\ \A a1 \in ToolCallsAt(emitted, "analyzing_content", "in_progress") :
              \A a2 \in ToolCallsAt(emitted, "analyzing_content", "complete") : a1 < a2

C8_Witness ==
    /\ req.use_context
    /\ orchState = "DONE"
    /\ Len(sources) = 0
    /\ ToolCallsAt(emitted, "analyzing_content", "complete") # {}
    /\ ToolCallsAt(emitted, "retrieving_pdf", "in_progress") = {}

\* C9: once the client has aborted the connection, the orchestrator emits no
\* further event and can only move, from a non-terminal state, to the cancelled
\* terminal state (which it can always do); the client does not record the abort:
\* error is null from the abort on and when the aborted call ends, and that end
\* sets isStreaming to false.
C9_AbortIsNotAnError ==
    /\ [][/\ (connAborted /\ callNo' = callNo) =>
                /\ emitted' = emitted
                /\ orchState' # orchState =>
                      (orchState \in NonTerminal /\ orchState' = "CANCELLED")
          /\ pc' = "aborted" => (error' = "null" /\ connAborted')
          /\ (pc = "aborted" /\ pc' # "aborted") =>
                (error' = "null" /\ ~isStreaming' /\ abortRef' = 0 /\ pc' = "idle")]_vars
    /\ []((req.present /\ connAborted /\ orchState \in NonTerminal) => ENABLED Cancel)

C9_Witness ==
    /\ outcome = "aborted"
    /\ pc = "idle"
    /\ orchState = "CANCELLED"
    /\ Len(emitted) >= 2
    /\ rpos >= 1
    /\ error = "null"
    /\ ~isStreaming

\* the text of the text lines that come before the first done or error line
RECURSIVE TextBefore(_)
TextBefore(lines) ==
    IF lines = <<>> \/ Head(lines).type \in {"done", "error"}
    THEN <<>>
    ELSE (IF Head(lines).type = "text" THEN Head(lines).content ELSE <<>>)
         \o TextBefore(Tail(lines))

\* C10: when a call ends on an error event, no message is removed, the call's
\* assistant message still holds the concatenation of the text events received
\* before the error, and error holds the content of the error event.
C10_PartialTextKeptOnError ==
    [][(pc = "reading" /\ pc' = "idle" /\ outcome' = "error") =>
            /\ Len(messages') = Len(messages)
            /\ Len(messages') > 0
            /\ messages'[Len(messages')].id = asstId
            /\ messages'[Len(messages')].role = "assistant"
            /\ messages'[Len(messages')].content = TextBefore(delivered')
            /\ \E j \in EventsAt(delivered', "error") :
                    /\ error' = delivered'[j].content
                    /\ \A i \in 1..(j - 1) : delivered'[i].type \notin {"done", "error"}]_vars

C10_Witness ==
    /\ outcome = "error"
    /\ pc = "idle"
    /\ error = "generation failed"
    /\ Len(messages) = 2
    /\ messages[2].content = <<"a", "b">>
    /\ ~isStreaming

\* the content of every text event of a stream, concatenated in emission order
RECURSIVE AllText(_)
AllText(evs) ==
    IF evs = <<>>
    THEN <<>>
    ELSE (IF Head(evs).type = "text" THEN Head(evs).content ELSE <<>>)
         \o AllText(Tail(evs))

\* C11: when a call has ended on the done event of its response, the content of
\* the call's assistant message is the concatenation, in emission order, of the
\* content of every text event the server emitted, however the body was split
\* into reads (a split inside one 'data: ' line included).
C11_ContentIsAllText ==
    (pc = "idle" /\ outcome = "done" /\ Len(messages) > 0) =>
        messages[Len(messages)].content = AllText(emitted)

\* C12: every component event of a response has a name in {chart, table, card}, for
\* which the client's registry holds a renderer; a query whose keyword maps to no
\* renderer gets no component event (and a component may be left out whenever its
\* data cannot be derived).
C12_ComponentNamesAreRenderable ==
    /\ \A i \in EventsAt(emitted, "component") :
          /\ emitted[i].name \in {"chart", "table", "card"}
          /\ emitted[i].name = DetectComponent(req.message)
          /\ ComponentRenderer(emitted[i].name) # "Unknown component"
    /\ DetectComponent(req.message) \notin {"chart", "table", "card"} =>
          EventsAt(emitted, "component") = {}
    /\ Cardinality(EventsAt(emitted, "component")) <= 1

C12_Witness ==
    /\ orchState = "DONE"
    /\ req.message = "summary card"
    /\ \E i \in EventsAt(emitted, "component") :
          /\ emitted[i].name = "card"
          /\ ComponentRenderer(emitted[i].name) = "InfoCard"

\* a query with an unknown keyword is answered without a component
C12_OmittedReached ==
    /\ orchState = "DONE"
    /\ req.message = "plot a map"
    /\ EventsAt(emitted, "component") = {}

\* the chunks of the other documents, in their order
WithoutDocument(idx, d) ==
    LET Other(c) == c.document_id # d IN SelectSeq(idx, Other)

\* C13: when remove_by_document(d) has finished, the index is the index of before
\* without the chunks d owned: its size went down by the number of d's chunks, the
\* chunks of the other documents are unchanged and in their order, and nothing
\* changed if d owned no chunk; a search returns only chunks the index holds, so
\* none of a removed document.
C13_RemoveExactlyOwned ==
    [][/\ (writer.op = "remove" /\ writer'.op = "none") =>
            /\ Len(index') = Len(writer.before)
                                - Cardinality(OwnedBy(writer.before, writer.document_id))
            /\ OwnedBy(index', writer.document_id) = {}
            /\ index' = WithoutDocument(writer.before, writer.document_id)
            /\ OwnedBy(writer.before, writer.document_id) = {} => index' = writer.before
            /\ writer.document_id \notin registry'
       /\ (\E p \in Pipelines : searching[p] # <<>> /\ searching'[p] = <<>>) =>
            \A n \in 1..Len(planned'.sources) :
                /\ OwnedBy(index, planned'.sources[n].document_id) # {}
                /\ planned'.sources[n].document_id \in registry]_vars

\* document A has been removed from an index a search had found it in
C13_Witness ==
    /\ NoWriter
    /\ Len(planned.seen) = 4
    /\ \E n \in 1..Len(planned.sources) : planned.sources[n].document_id = "A"
    /\ index = DocumentChunks("B")
    /\ registry = {"B"}

\* the chunks of one document, in their order
OfDocument(idx, d) ==
    LET Owned(c) == c.document_id = d IN SelectSeq(idx, Owned)

\* every document of the index is there as a whole
WholeDocuments(idx) ==
    \A d \in Documents : OfDocument(idx, d) \in {<<>>, DocumentChunks(d)}

\* C14: while a search holds the index, and in the index state every plan was
\* computed on, each document is in the index with all of its chunks or with none,
\* for every interleaving of the pipelines' searches with uploads and deletions.
C14_SearchSeesWholeDocuments ==
    /\ ~NoReader => (NoWriter /\ WholeDocuments(index))
    /\ WholeDocuments(planned.seen)

C14_Witness ==
    /\ searching[1] # <<>>
    /\ searching[2] # <<>>
    /\ Len(index) = 4
    /\ Len(planned.seen) = 3
    /\ planned.sources # <<>>

\* C15: the sources of a plan are sorted by descending score, the earlier-inserted
\* chunk first among equal scores; no two of them share a (document_id, page) pair
\* and the source kept for a pair has the highest score of the pair in the index;
\* their citation ids are 1..N in that order, so that a citation [n] resolves to
\* the n-th source; the plan is empty when the index is empty or no chunk reaches
\* the score floor.
C15_PlanSortedDedupedNumbered ==
    LET S == planned.sources
        idx == planned.seen
        q == planned.query
        At(n) == CHOOSE i \in 1..Len(idx) : idx[i].chunk_id = S[n].chunk_id
    IN /\ \A n \in 1..Len(S) :
            /\ S[n].id = n
            /\ FindSource(S, n) = S[n]
            /\ \E i \in 1..Len(idx) : idx[i].chunk_id = S[n].chunk_id
            /\ idx[At(n)].document_id = S[n].document_id
            /\ idx[At(n)].page_number = S[n].page
            /\ S[n].similarity_score = Cosine(q, idx[At(n)].vector)
            /\ ScoreAtLeast(S[n].similarity_score, MinScore)
            /\ \A i \in 1..Len(idx) :
                  (idx[i].document_id = S[n].document_id /\ idx[i].page_number = S[n].page)
                     => ~ScoreLess(S[n].similarity_score, Cosine(q, idx[i].vector))
       /\ \A m, n \in 1..Len(S) :
            m < n =>
                /\ ~ScoreLess(S[m].similarity_score, S[n].similarity_score)
                /\ ~ScoreLess(S[n].similarity_score, S[m].similarity_score) => At(m) < At(n)
                /\ <<S[m].document_id, S[m].page>> # <<S[n].document_id, S[n].page>>
       /\ Len(S) <= TopK
       /\ (\A i \in 1..Len(idx) : ~ScoreAtLeast(Cosine(q, idx[i].vector), MinScore))
            => S = <<>>

C15_Witness ==
    /\ planned.query = <<1, 1>>
    /\ Len(planned.seen) = 4
    /\ Len(planned.sources) = 2
    /\ planned.sources[1].chunk_id = "A2"
    /\ planned.sources[2].chunk_id = "A3"
    /\ planned.sources[2].id = 2

\* a plan on an index that holds chunks, none of which reaches the floor
C15_NothingAboveFloor ==
    /\ planned.query = <<1, 0>>
    /\ Len(planned.seen) = 1
    /\ planned.sources = <<>>

\* C16: when a call has ended on the done event of its response, every stage whose
\* in_progress was emitted has its complete in the stream, before done, and no tool
\* call of the call's assistant message is left in status in_progress.
C16_NoToolCallLeftInProgress ==
    (pc = "idle" /\ outcome = "done" /\ Len(messages) > 0) =>
        /\ \A stage \in Stages :
              ToolCallsAt(emitted, stage, "in_progress") # {} =>
                  \E c \in ToolCallsAt(emitted, stage, "complete") :
                      \A d \in EventsAt(emitted, "done") : c < d
        /\ \A i \in 1..Len(messages[Len(messages)].toolCalls) :
              messages[Len(messages)].toolCalls[i].status # "in_progress"

\* the lines the loop of sendMessage handles: those up to the first done or error
RECURSIVE UpToTerminal(_)
UpToTerminal(lines) ==
    IF lines = <<>>
    THEN <<>>
    ELSE IF Head(lines).type \in {"done", "error"}
         THEN <<Head(lines)>>
         ELSE <<Head(lines)>> \o UpToTerminal(Tail(lines))

\* positions of the tool_call lines of one stage name; a message of the call
NamedAt(lines, name) ==
    {k \in 1..Len(lines) : lines[k].type = "tool_call" /\ lines[k].name = name}
First(ks) == CHOOSE k \in ks : \A j \in ks : k <= j
Last(ks) == CHOOSE k \in ks : \A j \in ks : j <= k
OwnMessages == {i \in 1..Len(messages) : messages[i].id = asstId}

\* the components and the last sources of a sequence of lines
ComponentsOf(lines) ==
    LET IsComponent(e) == e.type = "component"
        cs == SelectSeq(lines, IsComponent)
    IN [k \in 1..Len(cs) |-> [name |-> cs[k].name, props |-> cs[k].props]]
SourcesOf(lines) ==
    IF EventsAt(lines, "sources") = {}
    THEN <<>>
    ELSE lines[Last(EventsAt(lines, "sources"))].content

\* C17: the toolCalls of the call's assistant message hold one entry per stage name
\* received, ordered by the first tool_call line of each name, each with the
\* status of the last tool_call line of its name; content, sources and components
\* are those of the text, sources and component lines alone, so that a tool_call
\* line changes none of them.
C17_OneToolCallPerName ==
    \A i \in OwnMessages :
        LET tcs == messages[i].toolCalls
            L == UpToTerminal(delivered)
        IN /\ \A a, b \in 1..Len(tcs) : a # b => tcs[a].name # tcs[b].name
           /\ {tcs[a].name : a \in 1..Len(tcs)}
                = {L[k].name : k \in EventsAt(L, "tool_call")}
           /\ \A a, b \in 1..Len(tcs) :
                a < b => First(NamedAt(L, tcs[a].name)) < First(NamedAt(L, tcs[b].name))
           /\ \A a \in 1..Len(tcs) :
                tcs[a].status = L[Last(NamedAt(L, tcs[a].name))].status
           /\ messages[i].content = AllText(L)
           /\ messages[i].components = ComponentsOf(L)
           /\ messages[i].sources = SourcesOf(L)

C17_Witness ==
    /\ pc = "reading"
    /\ Len(delivered) = 4
    /\ OwnMessages = {2}
    /\ messages[2].toolCalls =
          <<[name |-> "searching_documents", status |-> "complete"],
            [name |-> "analyzing_content", status |-> "in_progress"]>>
    /\ messages[2].content = <<"a">>

\* C18: the step that handles a done or an error line ends the call with
\* isStreaming false and the ref null, and the lines after that line in the same
\* read change nothing: the message holds what the lines up to the terminal one
\* made of it, error is the content of an error line; once the call has ended,
\* the lines still unread are never read, and messages, error and isStreaming
\* change no more (but for the user's clearMessages).
C18_StopsAtFirstTerminal ==
    [][/\ (pc = "reading" /\ outcome' \in {"done", "error"} /\ pc' = "idle") =>
            LET L == UpToTerminal(delivered')
            IN /\ ~isStreaming'
               /\ abortRef' = 0
               /\ L # <<>>
               /\ L[Len(L)].type = outcome'
               /\ \A k \in 1..(Len(L) - 1) : L[k].type \notin {"done", "error"}
               /\ error' = (IF outcome' = "error" THEN L[Len(L)].content ELSE error)
               /\ Len(messages') = Len(messages)
               /\ messages'[1] = messages[1]
               /\ messages'[2].content = AllText(L)
               /\ messages'[2].components = ComponentsOf(L)
               /\ messages'[2].sources = SourcesOf(L)
               /\ Len(messages'[2].toolCalls) <= Cardinality(EventsAt(L, "tool_call"))
               /\ messages'[2].isStreaming = (outcome' # "done")
       /\ (pc = "idle" /\ outcome \in {"done", "error"}) =>
            /\ pc' = "idle"
            /\ rpos' = rpos
            /\ delivered' = delivered
            /\ isStreaming' = isStreaming
            /\ abortRef' = abortRef
            /\ messages' # messages => (messages' = <<>> /\ error' = "null")
            /\ error' # error => (messages' = <<>> /\ error' = "null")]_vars

C18_Witness ==
    /\ pc = "idle"
    /\ outcome = "done"
    /\ Len(delivered) = 2
    /\ delivered[1].type = "done"
    /\ delivered[2].type = "text"
    /\ rpos < Len(emitted)
    /\ Len(messages) = 2
    /\ messages[2].content = <<>>
    /\ ~messages[2].isStreaming
    /\ ~isStreaming

\* C19: whenever the sendMessage call has ended, whichever way, the hook's
\* isStreaming is false and the assistant message the call created, if it is
\* still in the list, has isStreaming = false.
C19_MessageStreamingEndsWithCall ==
    (pc = "idle" /\ callNo > 0) =>
        /\ ~isStreaming
        /\ \A i \in OwnMessages : ~messages[i].isStreaming

\* C20: in ChatInterface a sendMessage call starts only when the call before it
\* has ended (its sendMessage has returned, through done, error, the end of the
\* body, a failure or the catch of its abort), whatever the order of input-box
\* sends, suggestion clicks, New clicks, server events and reads.
C20_OneCallAtATime ==
    [][callNo' # callNo => (pc = "idle" /\ abortRef = 0 /\ ~isStreaming)]_vars

C20_Witness ==
    /\ callNo = 2
    /\ pc = "reading"
    /\ outcome = "aborted"
    /\ Len(messages) = 2
    /\ messages[1].content = "Summarize the key findings"
    /\ rpos > 0

\* ------------------------------------------------------------------ C21
\* C21: while a sendMessage call is fetching or reading its stream, isStreaming
\* is true and abortControllerRef holds that call's AbortController (so that
\* clearMessages aborts it), for every interleaving of calls, clearMessages and
\* the terminal or catch path of an earlier call.
C21_InFlightCallsStreamAndAbortable ==
    \A i \in 1..Len(calls) :
        InFlight(calls[i]) => (isStreaming /\ abortRef = i)

\* ------------------------------------------------------------------ C22
\* C22: the messages of the list have pairwise distinct ids, for any sequence of
\* sendMessage calls and any clock readings.
C22_MessageIdsDistinct ==
    \A i, j \in 1..Len(messages) : i # j => messages[i].id # messages[j].id

\* the consequence C22 draws: a stream event of a call changes no message but
\* the assistant message that call appended
C22_EventUpdatesOwnMessageOnly ==
    [][\A i \in 1..Len(calls) :
          (calls[i].st = "reading" /\ calls'[i].reads # calls[i].reads) =>
              /\ Len(messages') = Len(messages)
              /\ \A n \in 1..Len(messages) :
                    messages'[n] # messages[n] =>
                        (messages[n].role = "assistant" /\ messages[n].id = calls[i].asst)]_vars

\* ------------------------------------------------------------------ C23
\* C23: after handleCitationClick(source) the PDF viewer is open on the file
\* /api/pdfs/<source.pdf_id>/file and displays the page the source cites,
\* whatever citation clicks, page clicks and close actions came before.
C23_CitationOpensCitedPage ==
    lastPdfAction.kind = "citation" =>
        /\ pdfState.isOpen
        /\ pdfState.url = PdfUrl(lastPdfAction.source.pdf_id)
        /\ viewer.pageNumber = PageOf(lastPdfAction.source.page)

\* ------------------------------------------------------------------ C24
\* C24: once the document the viewer shows has loaded and numPages is known,
\* 1 <= pageNumber <= numPages, for every initialPage of a citation and every
\* sequence of previous and next clicks.
C24_PageWithinDocument ==
    (pdfState.isOpen /\ pdfState.url # NoUrl /\ viewer.loaded = pdfState.url
        /\ viewer.numPages # 0) =>
        (1 <= viewer.pageNumber /\ viewer.pageNumber <= viewer.numPages)

\* ------------------------------------------------------------------ C25
\* a name whose last four characters are ".pdf" in any mix of cases
EndsInPdfAnyCase(name) ==
    /\ Len(name) >= 4
    /\ name[Len(name) - 3] = "."
    /\ name[Len(name) - 2] \in {"p", "P"}
    /\ name[Len(name) - 1] \in {"d", "D"}
    /\ name[Len(name)] \in {"f", "F"}

\* what a handleFileUpload call does with a file the predicate admits, and with
\* any other file: a request and no alert, or an alert, no request and
\* uploadProgress untouched
UploadsExactly(Admitted(_)) ==
    uploadTally'.calls # uploadTally.calls =>
        IF Admitted(uploadTally'.file)
        THEN /\ uploadTally'.requests = uploadTally.requests + 1
             /\ uploadTally'.alerts = uploadTally.alerts
             /\ uploadProgress'.file = uploadTally'.file
        ELSE /\ uploadTally'.alerts = uploadTally.alerts + 1
             /\ uploadTally'.requests = uploadTally.requests
             /\ uploadProgress' = uploadProgress

UnderLimit(file) == EndsInPdfAnyCase(file.name) /\ file.size < SizeLimit
UpToLimit(file) == EndsInPdfAnyCase(file.name) /\ file.size <= SizeLimit

Uploading0 == [progress |-> 0, status |-> "uploading"]
Uploading30 == [progress |-> 30, status |-> "uploading"]
Complete100 == [progress |-> 100, status |-> "complete"]
Error30 == [progress |-> 30, status |-> "error"]

IsPrefix(s, t) == Len(s) <= Len(t) /\ s = SubSeq(t, 1, Len(s))

\* C26: for every accepted upload onUploadComplete is invoked exactly once if
\* uploadDocument succeeds and never if it fails; the stored progress follows
\* uploading(0), uploading(30), then complete(100) or error; progress never
\* decreases and the status processing is never reached.
C26_UploadProgressAndCompletion ==
    /\ [](/\ \/ IsPrefix(progressLog, <<Uploading0, Uploading30, Complete100>>)
              \/ IsPrefix(progressLog, <<Uploading0, Uploading30, Error30>>)
          /\ \A i, j \in 1..Len(progressLog) :
                i <= j => progressLog[i].progress <= progressLog[j].progress
          /\ uploadProgress.status # "processing"
          /\ uploadProgress # NoProgress => Logged(uploadProgress) = progressLog[Len(progressLog)]
          /\ documentRefresh =
                uploadTally.succeeded - (IF uploadPc = "completeTimer" THEN 1 ELSE 0)
          /\ uploadTally.succeeded + uploadTally.failed
                + (IF uploadPc = "uploading" THEN 1 ELSE 0) = uploadTally.requests)
    /\ [][documentRefresh' \in {documentRefresh, documentRefresh + 1}]_vars
    /\ \A n \in 1..MaxUploads :
          (uploadTally.succeeded = n) ~> (documentRefresh = n)

\* one upload failed and its bar is cleared, a second one succeeded and its
\* timer has called onUploadComplete
C26_Witness ==
    /\ uploadTally.failed = 1
    /\ uploadTally.succeeded = 1
    /\ documentRefresh = 1
    /\ uploadPc = "idle"
    /\ progressLog = <<Uploading0, Uploading30, Complete100>>

\* ------------------------------------------------------------------ C27
\* the list without its entry for id, the other entries in their order
WithoutEntry(list, id) ==
    IF Listed(list, id)
    THEN LET k == CHOOSE n \in 1..Len(list) : list[n] = id
         IN SubSeq(list, 1, k - 1) \o SubSeq(list, k + 1, Len(list))
    ELSE list

\* a handleDelete call was made and declined in this step
Declines ==
    /\ Len(deleteCalls') = Len(deleteCalls) + 1
    /\ deleteCalls'[Len(deleteCalls')].st = "declined"

\* what the steps that end a confirmed handleDelete call do to the list
DeleteOutcomes ==
    \A i \in 1..Len(deleteCalls) :
        /\ (deleteCalls[i].st = "awaiting" /\ deleteCalls'[i].st = "deleted") =>
              /\ documents' = WithoutEntry(documents, deleteCalls[i].doc)
              /\ deletingId' = "null"
        /\ (deleteCalls[i].st = "awaiting" /\ deleteCalls'[i].st = "failed") =>
              /\ documents' = documents
              /\ deletingId' = "null"

\* C27 as stated: a confirmed and successful delete removes exactly docId from
\* the displayed list, the others keep their order; a declined or failed one
\* leaves the list unchanged; in every case deletingId is null when the handler
\* has finished.
C27_DeleteRemovesExactlyOne ==
    [][/\ DeleteOutcomes
       /\ Declines => (documents' = documents /\ deletingId' = "null")]_vars

\* C27, amended: a declined confirmation leaves deletingId as it was, which is
\* the id of another deletion when one is in flight.
C27_DeleteRemovesExactlyOneOrKeeps ==
    [][/\ DeleteOutcomes
       /\ Declines => (documents' = documents /\ deletingId' = deletingId)]_vars

\* B was deleted from the list A, B, C; a delete of A failed, one of C was declined
C27_Witness ==
    /\ documents = <<"A", "C">>
    /\ deletingId = "null"
    /\ \E i, j, k \in 1..Len(deleteCalls) :
          /\ deleteCalls[i] = [doc |-> "B", st |-> "deleted"]
          /\ deleteCalls[j] = [doc |-> "A", st |-> "failed"]
          /\ deleteCalls[k] = [doc |-> "C", st |-> "declined"]

====
